---- MODULE Spec2Model ----
(***************************************************************************)
(* Model of the NFL betting bot (src/main.py): the odds conversions        *)
(* american_to_prob / prob_to_american / kelly_fraction, the Elo fold      *)
(* build_elo, and the recommendation loop of main.                         *)
(*                                                                         *)
(* Numbers.  Python floats are modelled as exact rationals [k, n, d] with  *)
(* d > 0 in lowest terms, plus the two non-numbers the code can produce or *)
(* receive: NaN (np.nan) and None (a missing price).  ZeroDivisionError is *)
(* the value Raised, which every later operation of the same call          *)
(* propagates.  Comparisons with NaN are FALSE, as in IEEE 754.            *)
(* Elo ratings are fixed-point integers in units of 1/(7*ProbScale) of a   *)
(* rating point, so that k*(act_h-exp_h) is an exact integer.              *)
(***************************************************************************)
EXTENDS Integers, Sequences, FiniteSets, TLC

VARIABLES
    \* ---- odds functions applied to drawn inputs
    odds,       \* the odds argument (an American price, None or NaN)
    p,          \* the probability argument
    a2p,        \* result of american_to_prob(odds)
    p2a,        \* result of prob_to_american(...)
    kf,         \* result of kelly_fraction(p, odds)
    opc,        \* which call has been made
    \* ---- build_elo
    games,      \* the rows of the games frame, in arrival order
    sorted,     \* games.sort_values("game_datetime")
    gi,         \* number of rows of the loop already processed
    elo,        \* the rating dictionary
    last,       \* the row processed by the latest loop iteration, with rh, ra
    epc,        \* position in build_elo
    \* ---- main
    ratings,    \* the rating dictionary main received from build_elo
    quotes,     \* the rows of the matching `game` frame
    min_edge,   \* the user's threshold
    p_home,     \* the model probability of the home side
    p_away,     \* the model probability of the away side
    stake,      \* the user's bankroll
    qi,         \* number of quote rows already processed
    recs,       \* the recommendation list
    printed,    \* the lines already printed
    mpc         \* position in main

oddsVars == <<odds, p, a2p, p2a, kf, opc>>
eloVars  == <<games, sorted, gi, elo, last, epc>>
mainVars == <<ratings, quotes, min_edge, stake, p_home, p_away, qi, recs, printed, mpc>>
vars     == <<oddsVars, eloVars, mainVars>>

(***************************************************************************)
(* Float values.                                                           *)
(***************************************************************************)
Abs(x) == IF x < 0 THEN -x ELSE x

RECURSIVE GCD(_, _)
GCD(a, b) == IF b = 0 THEN a ELSE GCD(b, a % b)

\* the rational n/d (d # 0) in lowest terms with a positive denominator
Num(n, d) ==
    LET g == GCD(Abs(n), Abs(d))
        s == IF d < 0 THEN -1 ELSE 1
    IN  [k |-> "num", n |-> s * (n \div g), d |-> s * (d \div g)]

NaN    == [k |-> "nan", n |-> 0, d |-> 1]
None   == [k |-> "none", n |-> 0, d |-> 1]
Raised == [k |-> "ZeroDivisionError", n |-> 0, d |-> 1]

Int2F(i) == Num(i, 1)
Zero == Int2F(0)
One  == Int2F(1)

IsNum(x) == x.k = "num"
\* pd.isna(x), together with the `is None` test that precedes it
IsNa(x) == x.k \in {"none", "nan"}

\* arithmetic: an exception wins, then NaN, then the rational result
Lift(x, y, r) ==
    IF x.k = "ZeroDivisionError" \/ y.k = "ZeroDivisionError" THEN Raised
    ELSE IF ~IsNum(x) \/ ~IsNum(y) THEN NaN
    ELSE r

FAdd(x, y) == Lift(x, y, Num(x.n * y.d + y.n * x.d, x.d * y.d))
FSub(x, y) == Lift(x, y, Num(x.n * y.d - y.n * x.d, x.d * y.d))
FMul(x, y) == Lift(x, y, Num(x.n * y.n, x.d * y.d))
FNeg(x)    == FSub(Zero, x)
\* Python's true division: a zero divisor raises ZeroDivisionError
FDiv(x, y) ==
    IF IsNum(x) /\ IsNum(y) /\ y.n = 0 THEN Raised
    ELSE Lift(x, y, Num(x.n * y.d, x.d * (IF y.n = 0 THEN 1 ELSE y.n)))

\* comparisons: FALSE as soon as one side is not a number
FLt(x, y) == IsNum(x) /\ IsNum(y) /\ x.n * y.d < y.n * x.d
FLe(x, y) == IsNum(x) /\ IsNum(y) /\ x.n * y.d <= y.n * x.d
FGt(x, y) == FLt(y, x)
FGe(x, y) == FLe(y, x)

\* Python's max(a, b): b only when b > a
FMax(a, b) == IF b.k = "ZeroDivisionError" THEN Raised
              ELSE IF FGt(b, a) THEN b ELSE a

(***************************************************************************)
(* Helper functions (src/main.py 34-55).                                   *)
(***************************************************************************)
\* a missing price taken as a zero probability
american_to_prob_NaNAsZero(o) ==
    IF IsNa(o) THEN Zero
    ELSE IF FGt(o, Zero) THEN FDiv(Int2F(100), FAdd(o, Int2F(100)))
    ELSE FDiv(FNeg(o), FAdd(FNeg(o), Int2F(100)))

american_to_prob(o) ==
    IF IsNa(o) THEN NaN
    ELSE IF FGt(o, Zero) THEN FDiv(Int2F(100), FAdd(o, Int2F(100)))
    ELSE FDiv(FNeg(o), FAdd(FNeg(o), Int2F(100)))

\* the positive-line formula on both sides of even money
prob_to_american_PositiveLineOnly(q) ==
    IF FLe(q, Zero) \/ FGe(q, One) THEN NaN
    ELSE LET dec == FDiv(One, q)
         IN  FMul(FSub(dec, One), Int2F(100))

prob_to_american(q) ==
    IF FLe(q, Zero) \/ FGe(q, One) THEN NaN
    ELSE LET dec == FDiv(One, q)
         IN  IF FGe(dec, Int2F(2)) THEN FMul(FSub(dec, One), Int2F(100))
             ELSE FDiv(Int2F(-100), FSub(dec, One))

\* the Kelly formula without max(0.0, ...)
kelly_fraction_NoFloor(q, o) ==
    IF IsNa(o) \/ FLe(q, Zero) \/ FGe(q, One) THEN Zero
    ELSE LET dec == FAdd(One, IF FGt(o, Zero) THEN FDiv(o, Int2F(100))
                              ELSE FDiv(Int2F(100), FNeg(o)))
             b   == FSub(dec, One)
             qq  == FSub(One, q)
         IN  FDiv(FSub(FMul(b, q), qq), b)

kelly_fraction(q, o) ==
    IF IsNa(o) \/ FLe(q, Zero) \/ FGe(q, One) THEN Zero
    ELSE LET dec == FAdd(One, IF FGt(o, Zero) THEN FDiv(o, Int2F(100))
                              ELSE FDiv(Int2F(100), FNeg(o)))
             b   == FSub(dec, One)
             qq  == FSub(One, q)
         IN  FMax(Zero, FDiv(FSub(FMul(b, q), qq), b))

(***************************************************************************)
(* The odds functions applied to drawn arguments.                          *)
(***************************************************************************)
PDen == 20

\* American prices, in and out of the legal domain (|odds| >= 100)
OddsInts == {-300, -150, -110, -101, -100, -50, -1, 0, 1, 50, 100, 101, 110,
             120, 150, 300}
OddsInputs == {Int2F(o) : o \in OddsInts} \cup {None, NaN}
ProbInputs == {Num(i, PDen) : i \in -1 .. PDen + 1} \cup {NaN}

ValidOdds(o) == IsNum(o) /\ (FGe(o, Int2F(100)) \/ FLe(o, Int2F(-100)))
InUnit(q)    == FGt(q, Zero) /\ FLt(q, One)

OddsInit ==
    /\ odds \in OddsInputs
    /\ p \in ProbInputs
    /\ a2p = None /\ p2a = None /\ kf = None
    /\ opc = "in"

AmericanToProb ==
    /\ opc = "in"
    /\ a2p' = american_to_prob(odds)
    /\ opc' = "a2p"
    /\ UNCHANGED <<odds, p, p2a, kf>>

\* prob_to_american applied to the probability american_to_prob returned
RoundTrip ==
    /\ opc = "a2p"
    /\ p2a' = prob_to_american(a2p)
    /\ opc' = "roundtrip"
    /\ UNCHANGED <<odds, p, a2p, kf>>

ProbToAmerican ==
    /\ opc = "in"
    /\ p2a' = prob_to_american(p)
    /\ opc' = "p2a"
    /\ UNCHANGED <<odds, p, a2p, kf>>

KellyFraction ==
    /\ opc = "in"
    /\ kf' = kelly_fraction(p, odds)
    /\ opc' = "kelly"
    /\ UNCHANGED <<odds, p, a2p, p2a>>

(***************************************************************************)
(* Elo model (src/main.py 57-85).                                          *)
(***************************************************************************)
HOME_FIELD_ELO == 55
BASE_K == 20

\* exp_h and act_h are kept in units of 1/ProbScale
ProbScale == 1000
\* a rating is kept in units of 1/Unit of a rating point
Unit == 7 * ProbScale
Rating(points) == points * Unit

\* round(ProbScale / (1 + 10**(-x/400))) for x = -800, -775, ..., 800
LogisticTable ==
    <<10, 11, 13, 15, 17, 20, 23, 27, 31, 35, 40, 46, 53, 61, 70, 80, 91,
      104, 118, 133, 151, 170, 192, 215, 240, 267, 297, 327, 360, 394, 429,
      464, 500, 536, 571, 606, 640, 673, 703, 733, 760, 785, 808, 830, 849,
      867, 882, 896, 909, 920, 930, 939, 947, 954, 960, 965, 969, 973, 977,
      980, 983, 985, 987, 989, 990>>
TableStep == 25
TableSpan == 800

\* 1/(1+10**(-x/400)) for a rating difference x (in rating units): the table,
\* linearly interpolated, and its end values beyond the span
Logistic(x) ==
    LET lo   == -Rating(TableSpan)
        hi   == Rating(TableSpan)
        c    == IF x < lo THEN lo ELSE IF x > hi THEN hi ELSE x
        step == Rating(TableStep)
        i    == (c - lo) \div step
        rem  == (c - lo) % step
        y0   == LogisticTable[i + 1]
        y1   == IF i + 2 <= Len(LogisticTable) THEN LogisticTable[i + 2] ELSE y0
    IN  y0 + ((y1 - y0) * rem) \div step

exp_h(rh, ra) == Logistic((rh + Rating(HOME_FIELD_ELO)) - ra)

act_h(hs, as) == IF hs > as THEN ProbScale
                 ELSE IF hs < as THEN 0
                 ELSE ProbScale \div 2

Min(x, y) == IF x <= y THEN x ELSE y

\* 7 * k, with k = BASE_K*(1+min(3,abs(hs-as_)/7))
k7(hs, as) == BASE_K * (7 + Min(21, Abs(hs - as)))

new_home(rh, ra, hs, as) == rh + k7(hs, as) * (act_h(hs, as) - exp_h(rh, ra))

\* the away update computed after elo[h] was assigned, from the new elo[h]
new_away_Sequential(rh, ra, hs, as) ==
    ra + k7(hs, as) * ((ProbScale - act_h(hs, as))
                       - (ProbScale - exp_h(new_home(rh, ra, hs, as), ra)))

\* the away update with the home side's sign
new_away_SameSign(rh, ra, hs, as) ==
    ra + k7(hs, as) * (act_h(hs, as) - exp_h(rh, ra))

new_away(rh, ra, hs, as) ==
    ra + k7(hs, as) * ((ProbScale - act_h(hs, as)) - (ProbScale - exp_h(rh, ra)))

MaxGames == 2

Teams == {"KC", "BUF", "SF"}
\* home_score, away_score: a capped blowout, a tie, a narrow away win, home by 7
Scores == {<<24, 0>>, <<3, 3>>, <<17, 20>>, <<10, 3>>}
Times == 1 .. MaxGames

\* a game is played by two different teams
Matchups == {m \in Teams \X Teams : m[1] # m[2]}

GameRows ==
    {[home_team |-> m[1], away_team |-> m[2], home_score |-> s[1],
      away_score |-> s[2], game_datetime |-> t] :
        m \in Matchups, s \in Scores, t \in Times}

DistinctTimes(g) ==
    \A i, j \in 1 .. Len(g) : i # j => g[i].game_datetime # g[j].game_datetime

\* completed games between two different teams, no two at the same time
GameLists ==
    {g \in UNION {[1 .. n -> GameRows] : n \in 0 .. MaxGames} : DistinctTimes(g)}

\* pd.unique(pd.concat([games["home_team"], games["away_team"]]))
teams(g) == {g[i].home_team : i \in 1 .. Len(g)} \cup {g[i].away_team : i \in 1 .. Len(g)}

RECURSIVE Insert(_, _)
Insert(s, r) ==
    IF s = <<>> THEN <<r>>
    ELSE IF r.game_datetime < Head(s).game_datetime THEN <<r>> \o s
    ELSE <<Head(s)>> \o Insert(Tail(s), r)

RECURSIVE InsertionSort(_)
InsertionSort(g) ==
    IF g = <<>> THEN <<>>
    ELSE Insert(InsertionSort(SubSeq(g, 1, Len(g) - 1)), g[Len(g)])

\* the frame left in arrival order
sort_values_ArrivalOrder(g) == g

\* games.sort_values("game_datetime")
sort_values(g) == InsertionSort(g)

\* the body of the loop of build_elo on row r
elo_step(e, r) ==
    LET h  == r.home_team
        a  == r.away_team
        rh == e[h]
        ra == e[a]
        e1 == [e EXCEPT ![h] = new_home(rh, ra, r.home_score, r.away_score)]
    IN  [e1 EXCEPT ![a] = new_away(rh, ra, r.home_score, r.away_score)]

RECURSIVE elo_fold(_, _)
elo_fold(e, s) == IF s = <<>> THEN e ELSE elo_fold(elo_step(e, Head(s)), Tail(s))

initial_elo(g) == [t \in teams(g) |-> Rating(1500)]

\* build_elo as a function of the games frame
build_elo(g) == elo_fold(initial_elo(g), sort_values(g))

EmptyDict == [t \in {} |-> 0]
NoRow == [h |-> "", a |-> "", hs |-> 0, as |-> 0, rh |-> 0, ra |-> 0]

EloInit ==
    /\ games \in GameLists
    /\ sorted = <<>>
    /\ gi = 0
    /\ elo = EmptyDict
    /\ last = NoRow
    /\ epc = "start"

\* lines 72-74: the dictionary of 1500s and the sorted frame
BuildEloStart ==
    /\ epc = "start"
    /\ elo' = initial_elo(games)
    /\ sorted' = sort_values(games)
    /\ epc' = "loop"
    /\ UNCHANGED <<games, gi, last>>

\* lines 75-81: one iteration of the loop
BuildEloRow ==
    /\ epc = "loop"
    /\ gi < Len(sorted)
    /\ LET r == sorted[gi + 1]
       IN  /\ last' = [h |-> r.home_team, a |-> r.away_team,
                       hs |-> r.home_score, as |-> r.away_score,
                       rh |-> elo[r.home_team], ra |-> elo[r.away_team]]
           /\ elo' = elo_step(elo, r)
    /\ gi' = gi + 1
    /\ UNCHANGED <<games, sorted, epc>>

\* line 82
BuildEloReturn ==
    /\ epc = "loop"
    /\ gi = Len(sorted)
    /\ epc' = "done"
    /\ UNCHANGED <<games, sorted, gi, elo, last>>

(***************************************************************************)
(* main (src/main.py 102-147): the recommendation loop and the printing.   *)
(***************************************************************************)
Get(e, t, default) == IF t \in DOMAIN e THEN e[t] ELSE default

\* line 85; the result is a float in units of 1/ProbScale
elo_home_prob(home, away, e) ==
    Num(Logistic((Get(e, home, Rating(1500)) + Rating(HOME_FIELD_ELO))
                 - Get(e, away, Rating(1500))), ProbScale)

RECURSIVE Pow10(_)
Pow10(n) == IF n = 0 THEN 1 ELSE 10 * Pow10(n - 1)

\* round(x, nd): to the nearest multiple of 10**-nd, a tie to the even one
Round(x, nd) ==
    IF ~IsNum(x) THEN x
    ELSE LET n == x.n * Pow10(nd)
             f == n \div x.d
             r == n - f * x.d
             u == IF 2 * r > x.d \/ (2 * r = x.d /\ f % 2 = 1) THEN f + 1 ELSE f
         IN  Num(u, Pow10(nd))

\* the tests of lines 136 and 138
\* > in place of >=
recommend_Strict(edge, threshold) == FGt(edge, threshold)

recommend(edge, threshold) == FGe(edge, threshold)

\* recs.append(rec)
\* the new entry put first
append_AtFront(l, rec) == <<rec>> \o l

append(l, rec) == Append(l, rec)

HomeInput == "KC"
AwayInput == "BUF"

edge_of(prob, price) == FMul(FSub(prob, american_to_prob(price)), Int2F(100))

rec_of(r, side, team, price, prob) ==
    [book |-> r.book, side |-> side, team |-> team, odds |-> price,
     prob |-> Round(prob, 3), edge |-> Round(edge_of(prob, price), 2),
     kelly |-> Round(FMul(kelly_fraction(prob, price), stake), 2)]

\* lines 131-139: the recommendations after row r
row_recs(l, r) ==
    LET hp == r.home_price
        ap == r.away_price
        l1 == IF recommend(edge_of(p_home, hp), min_edge)
              THEN append(l, rec_of(r, "Home ML", HomeInput, hp, p_home))
              ELSE l
    IN  IF recommend(edge_of(p_away, ap), min_edge)
        THEN append(l1, rec_of(r, "Away ML", AwayInput, ap, p_away))
        ELSE l1

MaxQuotes == 2

\* a price of the feed: American odds, or absent (None, NaN once in a float column)
PriceInputs == {None, NaN, Int2F(100), Int2F(-150)}
\* no history for the two names, and a history that makes the matchup even
RatingInputs == {EmptyDict,
                 (HomeInput :> Rating(1445)) @@ (AwayInput :> Rating(1500))}
MinEdgeInputs == {Int2F(-20), Zero, One}
StakeInputs == {Int2F(100)}

\* one row per bookmaker; the book of row i is bookmaker i
QuoteLists ==
    UNION {{q \in [1 .. n -> [book : 1 .. n, home_price : PriceInputs,
                              away_price : PriceInputs]] :
                \A i \in 1 .. n : q[i].book = i} : n \in 0 .. MaxQuotes}

MainInit ==
    /\ ratings \in RatingInputs
    /\ quotes \in QuoteLists
    /\ min_edge \in MinEdgeInputs
    /\ stake \in StakeInputs
    /\ p_home = None
    /\ p_away = None
    /\ qi = 0
    /\ recs = <<>>
    /\ printed = <<>>
    /\ mpc = "start"

\* lines 122-129: "Game not found" and exit, or the two model probabilities
\* and the empty list
MainStart ==
    /\ mpc = "start"
    /\ IF quotes = <<>>
       THEN /\ mpc' = "exit"
            /\ UNCHANGED <<p_home, p_away>>
       ELSE /\ mpc' = "loop"
            /\ p_home' = elo_home_prob(HomeInput, AwayInput, ratings)
            /\ p_away' = FSub(One, elo_home_prob(HomeInput, AwayInput, ratings))
    /\ UNCHANGED <<ratings, quotes, min_edge, stake, qi, recs, printed>>

\* lines 130-139: one iteration; a ZeroDivisionError of kelly_fraction ends main
MainRow ==
    /\ mpc = "loop"
    /\ qi < Len(quotes)
    /\ LET r == quotes[qi + 1]
       IN  IF Raised \in {kelly_fraction(p_home, r.home_price),
                          kelly_fraction(p_away, r.away_price)}
           THEN /\ mpc' = "raised"
                /\ UNCHANGED <<qi, recs>>
           ELSE /\ recs' = row_recs(recs, r)
                /\ qi' = qi + 1
                /\ mpc' = mpc
    /\ UNCHANGED <<ratings, quotes, min_edge, stake, p_home, p_away, printed>>

\* lines 141-145: the "no bets" message, or the header of the table
MainLoopEnd ==
    /\ mpc = "loop"
    /\ qi = Len(quotes)
    /\ mpc' = IF recs = <<>> THEN "none" ELSE "print"
    /\ UNCHANGED <<ratings, quotes, min_edge, stake, p_home, p_away, qi, recs, printed>>

\* lines 146-147: the next line of the table
MainPrint ==
    /\ mpc = "print"
    /\ Len(printed) < Len(recs)
    /\ printed' = Append(printed, recs[Len(printed) + 1])
    /\ UNCHANGED <<ratings, quotes, min_edge, stake, p_home, p_away, qi, recs, mpc>>

MainDone ==
    /\ mpc = "print"
    /\ Len(printed) = Len(recs)
    /\ mpc' = "done"
    /\ UNCHANGED <<ratings, quotes, min_edge, stake, p_home, p_away, qi, recs, printed>>

(***************************************************************************)
(* Specifications: one per part of the program; the other parts are idle.  *)
(***************************************************************************)
OddsIdle ==
    /\ odds = None /\ p = NaN /\ a2p = None /\ p2a = None /\ kf = None
    /\ opc = "idle"
EloIdle ==
    /\ games = <<>> /\ sorted = <<>> /\ gi = 0 /\ elo = EmptyDict
    /\ last = NoRow /\ epc = "idle"
MainIdle ==
    /\ ratings = EmptyDict /\ quotes = <<>> /\ min_edge = Zero /\ stake = Zero
    /\ p_home = None /\ p_away = None
    /\ qi = 0 /\ recs = <<>> /\ printed = <<>> /\ mpc = "idle"

InitOdds == OddsInit /\ EloIdle /\ MainIdle
NextOdds ==
    \/ AmericanToProb /\ UNCHANGED <<eloVars, mainVars>>
    \/ RoundTrip /\ UNCHANGED <<eloVars, mainVars>>
    \/ ProbToAmerican /\ UNCHANGED <<eloVars, mainVars>>
    \/ KellyFraction /\ UNCHANGED <<eloVars, mainVars>>
SpecOdds == InitOdds /\ [][NextOdds]_vars

InitElo == OddsIdle /\ EloInit /\ MainIdle
NextElo ==
    \/ BuildEloStart /\ UNCHANGED <<oddsVars, mainVars>>
    \/ BuildEloRow /\ UNCHANGED <<oddsVars, mainVars>>
    \/ BuildEloReturn /\ UNCHANGED <<oddsVars, mainVars>>
SpecElo == InitElo /\ [][NextElo]_vars

InitMain == OddsIdle /\ EloIdle /\ MainInit
NextMain ==
    \/ MainStart /\ UNCHANGED <<oddsVars, eloVars>>
    \/ MainRow /\ UNCHANGED <<oddsVars, eloVars>>
    \/ MainLoopEnd /\ UNCHANGED <<oddsVars, eloVars>>
    \/ MainPrint /\ UNCHANGED <<oddsVars, eloVars>>
    \/ MainDone /\ UNCHANGED <<oddsVars, eloVars>>
SpecMain == InitMain /\ [][NextMain]_vars

Init == InitOdds \/ InitElo \/ InitMain
Next == NextOdds \/ NextElo \/ NextMain
Spec == Init /\ [][Next]_vars

(***************************************************************************)
(* Properties of the recommendation loop (SpecMain).                       *)
(***************************************************************************)
Sides == {"Home ML", "Away ML"}
PriceOf(i, side) == IF side = "Home ML" THEN quotes[i].home_price
                    ELSE quotes[i].away_price
ProbOf(side) == IF side = "Home ML" THEN p_home ELSE p_away

\* the positions of recs that hold the entry of row i and side
Entries(i, side) ==
    {j \in 1 .. Len(recs) : recs[j].book = i /\ recs[j].side = side}

\* the (row, side) pairs processed so far with
\* (p - american_to_prob(price)) * 100 >= min_edge
Clearing ==
    {x \in (1 .. qi) \X Sides :
        FGe(FMul(FSub(ProbOf(x[2]), american_to_prob(PriceOf(x[1], x[2]))),
                 Int2F(100)), min_edge)}

\* C1: a side whose price is missing (None or NaN) has no recommendation,
\* whatever the threshold, the model probability and the other side are.
C1_MissingPriceNoRecommendation ==
    \A i \in 1 .. qi : \A side \in Sides :
        IsNa(PriceOf(i, side)) => Entries(i, side) = {}

\* a processed row whose home price is missing while its away side was
\* recommended under a negative threshold
C1_Witness ==
    \E i \in 1 .. qi :
        /\ IsNa(quotes[i].home_price)
        /\ Entries(i, "Away ML") # {}
        /\ FLt(min_edge, Zero)

\* C2: a side with a present price has exactly one recommendation if
\* (p - american_to_prob(price)) * 100 >= min_edge and none otherwise, and
\* the list is as long as the number of (row, side) pairs that clear it.
C2_RecommendedIffEdgeAtLeastMin ==
    LET clearing == Clearing
    IN  /\ \A i \in 1 .. qi : \A side \in Sides :
              ~IsNa(PriceOf(i, side)) =>
                  Cardinality(Entries(i, side)) =
                      (IF <<i, side>> \in clearing THEN 1 ELSE 0)
        /\ Len(recs) = Cardinality(clearing)

\* a recommended side whose edge equals the threshold exactly, next to a
\* priced side below it that was not recommended
C2_Witness ==
    /\ mpc = "done"
    /\ \E i \in 1 .. qi : \E side \in Sides :
          /\ IsNum(PriceOf(i, side))
          /\ edge_of(ProbOf(side), PriceOf(i, side)) = min_edge
          /\ Entries(i, side) # {}
    /\ \E i \in 1 .. qi : \E side \in Sides :
          /\ IsNum(PriceOf(i, side))
          /\ FLt(edge_of(ProbOf(side), PriceOf(i, side)), min_edge)
          /\ Entries(i, side) = {}

\* C9: the list is in the order of the quote rows, home before away within
\* a row, and the lines are printed in the order of the list.
C9_InputOrderPreserved ==
    /\ \A j, m \in 1 .. Len(recs) :
          j < m => \/ recs[j].book < recs[m].book
                   \/ /\ recs[j].book = recs[m].book
                      /\ recs[j].side = "Home ML"
                      /\ recs[m].side = "Away ML"
    /\ Len(printed) <= Len(recs)
    /\ \A j \in 1 .. Len(printed) : printed[j] = recs[j]

\* a fully printed table whose later line has the larger edge: an
\* edge-sorted output would have put it first
C9_Witness ==
    /\ mpc = "done"
    /\ Len(printed) >= 3
    /\ \E j \in 1 .. Len(printed) - 1 : FLt(printed[j].edge, printed[j + 1].edge)

(***************************************************************************)
(* Properties of build_elo (SpecElo).                                      *)
(***************************************************************************)
RECURSIVE SumOver(_, _)
SumOver(f, S) ==
    IF S = {} THEN 0
    ELSE LET t == CHOOSE x \in S : TRUE IN f[t] + SumOver(f, S \ {t})

\* the rows of g from the earliest to the latest
RECURSIVE Ascending(_)
Ascending(S) ==
    IF S = {} THEN <<>>
    ELSE LET r == CHOOSE x \in S : \A y \in S : x.game_datetime <= y.game_datetime
         IN  <<r>> \o Ascending(S \ {r})

RowSet(g) == {g[i] : i \in 1 .. Len(g)}
Reorderings(g) == {[i \in 1 .. Len(g) |-> g[f[i]]] : f \in Permutations(1 .. Len(g))}

\* C3: both updates of a game come from the ratings before the game, and the
\* home change is the negative of the away change; a home win moves the home
\* team up and the away team down.
C3_SimultaneousOppositeUpdates ==
    gi > 0 =>
        LET delta == BASE_K * (7 + Min(21, Abs(last.hs - last.as)))
                     * (act_h(last.hs, last.as)
                        - Logistic(last.rh + Rating(HOME_FIELD_ELO) - last.ra))
        IN  /\ elo[last.h] - last.rh = delta
            /\ elo[last.a] - last.ra = -delta
            /\ last.hs > last.as => elo[last.h] > last.rh /\ elo[last.a] < last.ra

\* a second game, won by a home team whose rating had already moved
C3_Witness ==
    /\ gi = 2
    /\ last.hs > last.as
    /\ last.rh # Rating(1500)
    /\ elo[last.h] > last.rh

\* C4: the result is the fold over the rows in ascending game_datetime
\* order, the same for every reordering of the frame.
C4_ChronologicalFold ==
    epc = "done" =>
        /\ elo = elo_fold([t \in teams(games) |-> Rating(1500)], Ascending(RowSet(games)))
        /\ \A q \in Reorderings(games) : build_elo(q) = elo

\* a frame that arrived latest game first, on which the arrival-order fold
\* gives other ratings
C4_Witness ==
    /\ epc = "done"
    /\ Len(games) = 2
    /\ games[1].game_datetime > games[2].game_datetime
    /\ elo # elo_fold(initial_elo(games), games)

\* C10: from the construction of the dictionary on, its keys are the teams
\* of the frame and its values sum to 1500 per team.
C10_RatingConservation ==
    epc \in {"loop", "done"} =>
        /\ DOMAIN elo = teams(games)
        /\ SumOver(elo, DOMAIN elo) = Rating(1500) * Cardinality(teams(games))

\* the end of a run over two games of three teams, none left at 1500
C10_Witness ==
    /\ epc = "done"
    /\ gi = 2
    /\ Cardinality(DOMAIN elo) = 3
    /\ \A t \in DOMAIN elo : elo[t] # Rating(1500)

(***************************************************************************)
(* Properties of the odds functions (SpecOdds).                            *)
(***************************************************************************)
\* C5: kelly_fraction returns, for every p and odds, a number in [0, 1]
\* without raising, and 0.0 when the inputs are invalid.
C5_KellyTotalInUnitInterval ==
    opc = "kelly" =>
        /\ IsNum(kf) /\ FGe(kf, Zero) /\ FLe(kf, One)
        /\ (~ValidOdds(odds) \/ ~InUnit(p)) => kf = Zero

\* C6: with valid odds fixed, kelly_fraction is non-decreasing in p over
\* (0,1), 0.0 up to the implied probability and positive above it.
C6_KellyMonotoneInP ==
    (opc = "kelly" /\ ValidOdds(odds) /\ InUnit(p)) =>
        /\ FLe(p, american_to_prob(odds)) => kf = Zero
        /\ FGt(p, american_to_prob(odds)) => FGt(kf, Zero)
        /\ \A q \in ProbInputs :
              (InUnit(q) /\ FLe(p, q)) => FLe(kf, kelly_fraction(q, odds))

\* p exactly at the implied probability of a negative line
C6_Witness ==
    /\ opc = "kelly"
    /\ odds = Int2F(-150)
    /\ p = american_to_prob(odds)
    /\ kf = Zero

\* C7: the round trip returns every valid price except -100, which comes
\* back as +100.
C7_RoundTrip ==
    (opc = "roundtrip" /\ ValidOdds(odds)) =>
        /\ odds # Int2F(-100) => p2a = odds
        /\ odds = Int2F(-100) => p2a = Int2F(100)

\* a negative line that came back
C7_Witness ==
    /\ opc = "roundtrip"
    /\ odds = Int2F(-110)
    /\ p2a = odds

\* C8: a missing price gives NaN, a present price strictly between -100 and
\* +100 gives no probability, and every probability returned for a present
\* price is strictly between 0 and 1.
C8_InvalidOddsNeverConverted ==
    opc = "a2p" =>
        /\ IsNa(odds) => a2p = NaN
        /\ (IsNum(odds) /\ ~ValidOdds(odds)) => ~IsNum(a2p)
        /\ (IsNum(odds) /\ IsNum(a2p)) => InUnit(a2p)

====
